---- MODULE Spec2Model ----
(***************************************************************************)
(* X11 screen capture of SIP Communicator:                                 *)
(*   x11_grab_screen and its JNI entry point                               *)
(*   Java_..._UnixScreenCapture_grabScreen                                 *)
(* (src/native/linux/screencapture/..._UnixScreenCapture.c).               *)
(*                                                                         *)
(* The display service (Xlib, XShm), the SysV shared memory calls, malloc  *)
(* and the JVM are the environment: every call of theirs that can fail     *)
(* does so nondeterministically.  Each call of the entry point is a        *)
(* process c \in Calls with its own locals, its own ledger of the          *)
(* resources it holds and its own log of the environment calls it made.    *)
(***************************************************************************)
EXTENDS Integers, Sequences, FiniteSets, TLC

\* ---------------------------------------------------------------- bounds
\* Largest screen width and height the display service reports.
MaxScreenW == 2
MaxScreenH == 2
\* Largest in-range origin coordinate and extent the caller passes (the
\* caller also passes the out-of-range values of XVals .. HVals below).
MaxCoord == 1
MaxDim == 2

\* ------------------------------------------------------ 32-bit arithmetic
MaxInt32 == 2147483647
MinInt32 == -MaxInt32 - 1
TwoTo8 == 256
TwoTo16 == 65536
TwoTo24 == 16777216

Abs(a) == IF a < 0 THEN -a ELSE a

\* int + int leaves the range of int (undefined behaviour in C).
AddOverflows(a, b) ==
    \/ b > 0 /\ a > MaxInt32 - b
    \/ b < 0 /\ a < MinInt32 - b

\* The sum a build without overflow trapping produces: two's complement wrap.
Add32(a, b) ==
    IF b > 0 /\ a > MaxInt32 - b
    THEN (a - MaxInt32 - 1) + (b - MaxInt32 - 1)
    ELSE IF b < 0 /\ a < MinInt32 - b
    THEN (a + MaxInt32 + 1) + (b + MaxInt32 + 1)
    ELSE a + b

\* Byte k (0 = least significant) of the two's complement encoding of a.
Limb(a, k) ==
    LET d == IF k = 0 THEN 1 ELSE IF k = 1 THEN TwoTo8
             ELSE IF k = 2 THEN TwoTo16 ELSE TwoTo24
    IN  (a \div d) % TwoTo8

\* The int whose two's complement encoding has the bytes r3 r2 r1 r0.
FromLimbs(r3, r2, r1, r0) ==
    (IF r3 >= 128 THEN r3 - TwoTo8 ELSE r3) * TwoTo24
      + r2 * TwoTo16 + r1 * TwoTo8 + r0

\* The product a build without overflow trapping produces: the low 32 bits.
Mul32(a, b) ==
    LET a0 == Limb(a, 0)  a1 == Limb(a, 1)  a2 == Limb(a, 2)  a3 == Limb(a, 3)
        b0 == Limb(b, 0)  b1 == Limb(b, 1)  b2 == Limb(b, 2)  b3 == Limb(b, 3)
        k0 == a0 * b0
        k1 == (k0 \div TwoTo8) + a0 * b1 + a1 * b0
        k2 == (k1 \div TwoTo8) + a0 * b2 + a1 * b1 + a2 * b0
        k3 == (k2 \div TwoTo8) + a0 * b3 + a1 * b2 + a2 * b1 + a3 * b0
    IN  FromLimbs(k3 % TwoTo8, k2 % TwoTo8, k1 % TwoTo8, k0 % TwoTo8)

\* int * int leaves the range of int (undefined behaviour in C).
MulOverflows(a, b) ==
    IF a = 0 \/ b = 0 THEN FALSE
    ELSE IF a = MinInt32 THEN b # 1
    ELSE IF b = MinInt32 THEN a # 1
    ELSE IF (a > 0) = (b > 0)
    THEN Abs(a) > MaxInt32 \div Abs(b)
    ELSE /\ Abs(a) > MaxInt32 \div Abs(b)
         /\ ~ (/\ Abs(a) - 1 <= MaxInt32 \div Abs(b)
               /\ (Abs(a) - 1) * Abs(b) = MaxInt32 - Abs(b) + 1)

\* ------------------------------------------------------------ native pixels
\* A native pixel is the unsigned long XGetPixel returns, kept as
\* <<bits 63..32, bits 31..24, bits 23..0>>.
PixelTable ==
    << <<0, 0, 0>>,
       <<0, 0, 1193046>>,
       <<0, 128, 16777215>>,
       <<1, 127, 11259375>>,
       <<0, 255, 65280>> >>

\* a | b on bytes.
RECURSIVE ByteOr(_, _, _)
ByteOr(a, b, n) ==
    IF n = 0 THEN 0
    ELSE (IF a % 2 = 1 \/ b % 2 = 1 THEN 1 ELSE 0)
           + 2 * ByteOr(a \div 2, b \div 2, n - 1)

\* Lines 173-176: (uint32_t) drops bits 63..32, |= 0xff000000 sets the top
\* byte, and the store into int32_t data[] reinterprets the 32 bits as signed.
ToARGBMut(pixel) == FromLimbs(ByteOr(pixel[2], 127, 8), 0, 0, 0) + pixel[3]
ToARGB(pixel) == FromLimbs(ByteOr(pixel[2], 255, 8), 0, 0, 0) + pixel[3]

\* ------------------------------------------------------------------ state
\* The calls of the entry point (Java threads calling grabScreen).
Calls == {1, 2}

VARIABLES
    pc,       \* pc[c]: where call c stands in the code
    loc,      \* loc[c]: the locals of x11_grab_screen and of the entry point
    held,     \* held[c]: how many of each resource call c holds
    log,      \* log[c]: the display-service, shared-memory and heap calls made
    ret,      \* ret[c]: what the entry point handed back to the JVM
    ftrapv,   \* the build traps on signed overflow (else it wraps)
    screen    \* the default screen of the display: geometry and content

vars == <<pc, loc, held, log, ret, ftrapv, screen>>

\* What the caller passes for x, y, width and height: in-range values, and
\* values that make w + x, h + y and w * h leave the range of int.
XVals == (-1 .. MaxCoord) \cup {MaxInt32}
YVals == (0 .. MaxCoord) \cup {MaxInt32}
WVals == (-1 .. MaxDim) \cup {-TwoTo16}
HVals == (-1 .. MaxDim) \cup {-TwoTo16}
Args == XVals \X YVals \X WVals \X HVals
\* The regions two calls are compared on.
PairArgs == (0 .. MaxCoord) \X {0} \X (1 .. MaxDim) \X {1}

\* What malloc'ed memory holds before it is written.
GarbageVals == {0, -1}

\* The content of the screen at (px, py); off the screen the server has
\* nothing to show.
ScreenPixel(px, py) ==
    IF px >= 0 /\ px < screen.width /\ py >= 0 /\ py < screen.height
    THEN PixelTable[((px + 3 * py + screen.pattern) % Len(PixelTable)) + 1]
    ELSE PixelTable[1]

\* Lines 42-57 and 208-210: the locals before the first statement.
InitLoc ==
    [x |-> 0, y |-> 0, w |-> 0, h |-> 0, jsize |-> 0,
     display |-> FALSE, width |-> 0, height |-> 0,
     shm_support |-> FALSE, img |-> FALSE, ox |-> 0, oy |-> 0,
     shmid |-> "unset", shmaddr |-> "unset",
     data |-> FALSE, alloc |-> 0, garbage |-> 0,
     cells |-> [k \in {} |-> 0], writes |-> [k \in {} |-> 0],
     off |-> 0, i |-> 0, j |-> 0, size |-> 0,
     display_str |-> "unset", grab |-> "pending"]

NoHeld == [conn |-> 0, image |-> 0, shmLocal |-> 0, shmServer |-> 0, heap |-> 0]

NoRet == [state |-> "none", len |-> 0, garbage |-> 0, cells |-> [k \in {} |-> 0]]

Init ==
    /\ pc = [c \in Calls |-> "idle"]
    /\ loc = [c \in Calls |-> InitLoc]
    /\ held = [c \in Calls |-> NoHeld]
    /\ log = [c \in Calls |-> <<>>]
    /\ ret = [c \in Calls |-> NoRet]
    /\ ftrapv \in BOOLEAN
    /\ \E sw \in 1 .. MaxScreenW, sh \in 1 .. MaxScreenH, p \in 0 .. 1 :
          screen = [width |-> sw, height |-> sh, pattern |-> p]

\* --------------------------------------------------------------- helpers
\* The ledger after the library calls evs, in order.
RECURSIVE Apply(_, _)
Apply(hd, evs) ==
    IF evs = <<>> THEN hd
    ELSE LET e == Head(evs)
             nh == CASE e = "XOpenDisplay"    -> [hd EXCEPT !.conn = @ + 1]
                     [] e = "XCloseDisplay"   -> [hd EXCEPT !.conn = @ - 1]
                     [] e = "XShmCreateImage" -> [hd EXCEPT !.image = @ + 1]
                     [] e = "XGetImage"       -> [hd EXCEPT !.image = @ + 1]
                     [] e = "XDestroyImage"   -> [hd EXCEPT !.image = @ - 1]
                     [] e = "shmat"           -> [hd EXCEPT !.shmLocal = @ + 1]
                     [] e = "shmdt"           -> [hd EXCEPT !.shmLocal = @ - 1]
                     [] e = "XShmAttach"      -> [hd EXCEPT !.shmServer = @ + 1]
                     [] e = "XShmDetach"      -> [hd EXCEPT !.shmServer = @ - 1]
                     [] e = "malloc"          -> [hd EXCEPT !.heap = @ + 1]
                     [] e = "free"            -> [hd EXCEPT !.heap = @ - 1]
                     [] OTHER                 -> hd
         IN  Apply(nh, Tail(evs))

\* Step with the write offset off in static storage, one for all the calls.
StepStaticOff(c, p, l, evs) ==
    /\ pc' = [pc EXCEPT ![c] = p]
    /\ loc' = [d \in Calls |-> IF d = c THEN l ELSE [loc[d] EXCEPT !.off = l.off]]
    /\ log' = [log EXCEPT ![c] = @ \o evs]
    /\ held' = [held EXCEPT ![c] = Apply(@, evs)]

\* Call c makes the library calls evs, its locals become l and it goes to p.
Step(c, p, l, evs) ==
    /\ pc' = [pc EXCEPT ![c] = p]
    /\ loc' = [loc EXCEPT ![c] = l]
    /\ log' = [log EXCEPT ![c] = @ \o evs]
    /\ held' = [held EXCEPT ![c] = Apply(@, evs)]

\* return NULL after the library calls evs.
ReturnNull(c, l, evs) == Step(c, "returned", [l EXCEPT !.grab = "NULL"], evs)

\* ------------------------------------------- Java_..._grabScreen, entry
\* Lines 205-214: the JVM calls the entry point with (x, y, width, height);
\* size = width * height is computed in int before x11_grab_screen is
\* called with a NULL display string.
JniCall(c, A) ==
    /\ pc[c] = "idle"
    /\ \E a \in A :
         LET l == [InitLoc EXCEPT !.x = a[1], !.y = a[2], !.w = a[3], !.h = a[4],
                                  !.jsize = Mul32(a[3], a[4])]
         IN  IF MulOverflows(a[3], a[4]) /\ ftrapv
             THEN Step(c, "trapped", [l EXCEPT !.jsize = 0], <<>>)
             ELSE Step(c, "resolve", l, <<>>)
    /\ UNCHANGED <<ret, ftrapv, screen>>

\* ------------------------------------------------------- x11_grab_screen
\* Lines 61-65, the failure branch: the calls made before return NULL.
NoDisplay(l) == <<>>

\* Lines 59-65: x11display is NULL, so the name is getenv("DISPLAY").
ResolveDisplay(c) ==
    /\ pc[c] = "resolve"
    /\ \E display_str \in BOOLEAN :
         IF ~ display_str
         THEN ReturnNull(c, [loc[c] EXCEPT !.display_str = "NULL"], NoDisplay(loc[c]))
         ELSE Step(c, "open", [loc[c] EXCEPT !.display_str = "name"], <<>>)
    /\ UNCHANGED <<ret, ftrapv, screen>>

\* Lines 70-74, the failure branch: the calls made before return NULL.
OpenFailedMut(l) == <<"XCloseDisplay">>
OpenFailedRetry(l) == <<"XOpenDisplay:fail">>
OpenFailed(l) == <<>>

\* Lines 68-81: XOpenDisplay, then the geometry macros on the Display.
OpenDisplay(c) ==
    /\ pc[c] = "open"
    /\ \E ok \in BOOLEAN :
         IF ~ ok
         THEN ReturnNull(c, loc[c], <<"XOpenDisplay:fail">> \o OpenFailed(loc[c]))
         ELSE Step(c, "bounds",
                   [loc[c] EXCEPT !.display = TRUE,
                                  !.width = screen.width,
                                  !.height = screen.height],
                   <<"XOpenDisplay">>)
    /\ UNCHANGED <<ret, ftrapv, screen>>

\* Line 84: (w + x) > width || (h + y) > height, in int; the right operand
\* is evaluated only when the left one is false.
OutOfBounds(l) == Add32(l.w, l.x) > l.width \/ Add32(l.h, l.y) > l.height

\* Line 84 or line 90 overflows int.
BoundsOverflows(l) ==
    \/ AddOverflows(l.w, l.x)
    \/ ~ (Add32(l.w, l.x) > l.width) /\ AddOverflows(l.h, l.y)
    \/ ~ OutOfBounds(l) /\ MulOverflows(l.w, l.h)

\* Lines 83-90: the bounds check, and size = w * h (in int, then widened
\* to size_t: a negative product is a size above 2^63).
CheckBounds(c) ==
    /\ pc[c] = "bounds"
    /\ LET l == loc[c] IN
         IF BoundsOverflows(l) /\ ftrapv
         THEN Step(c, "trapped", l, <<>>)
         ELSE IF OutOfBounds(l)
         THEN ReturnNull(c, l, <<"XCloseDisplay">>)
         ELSE Step(c, "probe", [l EXCEPT !.size = Mul32(l.w, l.h)], <<>>)
    /\ UNCHANGED <<ret, ftrapv, screen>>

\* Lines 97 and 135: if(shm_support) ... else ..., the statement that follows.
PathAfterProbeMut(s) == "get_image"
PathAfterProbe(s) == IF s THEN "shm_create" ELSE "get_image"

\* Lines 93-97: XShmQueryExtension selects the path.
QueryShm(c) ==
    /\ pc[c] = "probe"
    /\ \E s \in BOOLEAN :
         Step(c, PathAfterProbe(s),
              [loc[c] EXCEPT !.shm_support = s],
              <<IF s THEN "XShmQueryExtension" ELSE "XShmQueryExtension:no">>)
    /\ UNCHANGED <<ret, ftrapv, screen>>

\* Lines 102-109: XShmCreateImage.
ShmCreateImage(c) ==
    /\ pc[c] = "shm_create"
    /\ \E ok \in BOOLEAN :
         IF ~ ok
         THEN ReturnNull(c, loc[c], <<"XShmCreateImage:fail", "XCloseDisplay">>)
         ELSE Step(c, "shm_setup", [loc[c] EXCEPT !.img = TRUE], <<"XShmCreateImage">>)
    /\ UNCHANGED <<ret, ftrapv, screen>>

\* Lines 112-115: the three segment calls, in the order of the code.
ShmSetupCallsMut(got, att) ==
    << IF got THEN "shmget" ELSE "shmget:fail",
       IF got THEN "shmctl" ELSE "shmctl:fail",
       IF att THEN "shmat" ELSE "shmat:fail" >>
ShmSetupCalls(got, att) ==
    << IF got THEN "shmget" ELSE "shmget:fail",
       IF att THEN "shmat" ELSE "shmat:fail",
       IF got THEN "shmctl" ELSE "shmctl:fail" >>

\* Lines 112-116: shmget, shmat, shmctl(IPC_RMID), none of them checked
\* here; shmat and shmctl fail on the id a failed shmget returned.
ShmSetup(c) ==
    /\ pc[c] = "shm_setup"
    /\ \E got \in BOOLEAN, att \in BOOLEAN :
         /\ (~ got) => ~ att
         /\ Step(c, "shm_attach",
                 [loc[c] EXCEPT !.shmid = IF got THEN "ok" ELSE "fail",
                                !.shmaddr = IF att THEN "ok" ELSE "fail"],
                 ShmSetupCalls(got, att))
    /\ UNCHANGED <<ret, ftrapv, screen>>

\* Lines 118-123, the failure branch: the calls made before return NULL.
ShmAttachFailedUnwind(l) == <<"shmdt", "XCloseDisplay">>
ShmAttachFailedMut(l) == <<"XShmDetach", "XCloseDisplay">>
ShmAttachFailed(l) == <<"XCloseDisplay">>

\* Lines 118-123: shmaddr == (void*)-1 || !XShmAttach(...).
ShmAttach(c) ==
    /\ pc[c] = "shm_attach"
    /\ LET l == loc[c] IN
         IF l.shmaddr = "fail"
         THEN ReturnNull(c, l, ShmAttachFailed(l))
         ELSE \E ok \in BOOLEAN :
                IF ~ ok
                THEN ReturnNull(c, l, <<"XShmAttach:fail">> \o ShmAttachFailed(l))
                ELSE Step(c, "shm_get_image", l, <<"XShmAttach">>)
    /\ UNCHANGED <<ret, ftrapv, screen>>

\* Line 126: the origin XShmGetImage is asked to capture at.
ShmOriginMut(l) == <<0, 0>>
ShmOrigin(l) == <<l.x, l.y>>

\* Lines 127-133, the failure branch: the calls made before return NULL.
ShmGetImageFailedMut(l) == <<"shmdt", "XShmDetach", "XCloseDisplay">>
ShmGetImageFailed(l) == <<"XShmDetach", "shmdt", "XCloseDisplay">>

\* Lines 125-133: XShmGetImage fills the image through the segment.
ShmGetImage(c) ==
    /\ pc[c] = "shm_get_image"
    /\ LET l == loc[c] IN
       \E ok \in BOOLEAN :
         IF ~ ok
         THEN ReturnNull(c, l, <<"XShmGetImage:fail">> \o ShmGetImageFailed(l))
         ELSE Step(c, "malloc",
                   [l EXCEPT !.ox = ShmOrigin(l)[1], !.oy = ShmOrigin(l)[2]],
                   <<"XShmGetImage">>)
    /\ UNCHANGED <<ret, ftrapv, screen>>

\* Lines 139-146: XGetImage pulls the image.
GetImage(c) ==
    /\ pc[c] = "get_image"
    /\ LET l == loc[c] IN
       \E ok \in BOOLEAN :
         IF ~ ok
         THEN ReturnNull(c, l, <<"XGetImage:fail", "XCloseDisplay">>)
         ELSE Step(c, "malloc",
                   [l EXCEPT !.img = TRUE, !.ox = l.x, !.oy = l.y],
                   <<"XGetImage">>)
    /\ UNCHANGED <<ret, ftrapv, screen>>

\* Lines 151-163, the failure branch: the calls made before return NULL.
MallocFailedCloseFirst(l) ==
    <<"XCloseDisplay", "XDestroyImage">>
      \o (IF l.shm_support THEN <<"XShmDetach", "shmdt">> ELSE <<>>)
MallocFailed(l) ==
    <<"XDestroyImage">>
      \o (IF l.shm_support THEN <<"XShmDetach", "shmdt">> ELSE <<>>)
      \o <<"XCloseDisplay">>

\* malloc(sizeof(int32_t) * size) can succeed: a negative int product is a
\* size_t above 2^63, and four times it is no size the heap can serve.
MallocCanSucceed(size) == size >= 0

\* Lines 149-163: the output buffer.
Malloc(c) ==
    /\ pc[c] = "malloc"
    /\ LET l == loc[c] IN
       \E ok \in BOOLEAN, g \in GarbageVals :
         /\ ok => MallocCanSucceed(l.size)
         /\ (~ ok) => g = 0
         /\ IF ~ ok
            THEN ReturnNull(c, l, <<"malloc:fail">> \o MallocFailed(l))
            ELSE Step(c, "convert",
                      [l EXCEPT !.data = TRUE, !.alloc = l.size, !.garbage = g],
                      <<"malloc">>)
    /\ UNCHANGED <<ret, ftrapv, screen>>

\* XGetPixel(img, i, j): the image holds the screen from its origin on.
XGetPixel(l, i, j) == ScreenPixel(Add32(l.ox, i), Add32(l.oy, j))

\* Line 176: the slot data[off++] names, and the offset after it.
Slot(l) == l.off

\* Lines 166-178: one test of a loop condition and what follows it: a pixel
\* converted and stored, the end of a row, or the end of the loops.  A store
\* at or beyond the allocated size is undefined: it corrupts the heap or
\* ends the process.
ConvertStep(c) ==
    /\ pc[c] = "convert"
    /\ LET l == loc[c] IN
         IF l.j < l.h
         THEN IF l.i < l.w
              THEN \/ Step(c, "convert",
                           [l EXCEPT !.cells = (Slot(l) :> ToARGB(XGetPixel(l, l.i, l.j))) @@ @,
                                     !.writes = (Slot(l) :> (IF Slot(l) \in DOMAIN @
                                                             THEN @[Slot(l)] + 1 ELSE 1)) @@ @,
                                     !.off = l.off + 1,
                                     !.i = l.i + 1],
                           <<"XGetPixel">>)
                   \/ /\ Slot(l) >= l.alloc
                      /\ Step(c, "crashed", l, <<"XGetPixel">>)
              ELSE Step(c, "convert", [l EXCEPT !.i = 0, !.j = l.j + 1], <<>>)
         ELSE Step(c, "release", l, <<>>)
    /\ UNCHANGED <<ret, ftrapv, screen>>

\* Lines 180-189: the calls that free the X11 resources after conversion.
ReleaseAllNoClose(l) ==
    <<"XDestroyImage">>
      \o (IF l.shm_support THEN <<"XShmDetach", "shmdt">> ELSE <<>>)
ReleaseAllMut(l) ==
    (IF l.shm_support THEN <<"XShmDetach", "shmdt">> ELSE <<>>)
      \o <<"XDestroyImage", "XCloseDisplay">>
ReleaseAll(l) ==
    <<"XDestroyImage">>
      \o (IF l.shm_support THEN <<"XShmDetach", "shmdt">> ELSE <<>>)
      \o <<"XCloseDisplay">>

\* Lines 180-192: release, then return data.
Release(c) ==
    /\ pc[c] = "release"
    /\ Step(c, "returned", [loc[c] EXCEPT !.grab = "data"], ReleaseAll(loc[c]))
    /\ UNCHANGED <<ret, ftrapv, screen>>

\* ------------------------------------------ Java_..._grabScreen, the rest
\* Line 216: !data, on what x11_grab_screen returned.
GrabFailedMut(l) == FALSE
GrabFailed(l) == l.grab = "NULL"

\* Lines 214-219: a NULL from x11_grab_screen is handed on as 0.
JniCheck(c) ==
    /\ pc[c] = "returned"
    /\ IF GrabFailed(loc[c])
       THEN /\ Step(c, "done", loc[c], <<>>)
            /\ ret' = [ret EXCEPT ![c] = [NoRet EXCEPT !.state = "null"]]
       ELSE /\ Step(c, "jni_new", loc[c], <<>>)
            /\ UNCHANGED ret
    /\ UNCHANGED <<ftrapv, screen>>

\* Line 221: the length NewIntArray is asked for.
ArrayLen(l) == l.jsize

\* Lines 221-227: NewIntArray, SetIntArrayRegion, free.  NewIntArray can
\* return NULL, which the code hands to SetIntArrayRegion unchecked: the JVM
\* then aborts, or leaves an exception pending and lets the call go on.
JniNewArray(c) ==
    /\ pc[c] = "jni_new"
    /\ LET l == loc[c] IN
       \E ok \in BOOLEAN, aborts \in BOOLEAN :
         /\ ok => ~ aborts
         /\ IF ok
            THEN /\ Step(c, "done", [l EXCEPT !.data = FALSE], <<"NewIntArray", "free">>)
                 /\ ret' = [ret EXCEPT ![c] =
                              [state |-> "array", len |-> ArrayLen(l),
                               garbage |-> l.garbage, cells |-> l.cells]]
            ELSE IF aborts
            THEN /\ Step(c, "crashed", l, <<"NewIntArray:fail">>)
                 /\ UNCHANGED ret
            ELSE /\ Step(c, "done", [l EXCEPT !.data = FALSE], <<"NewIntArray:fail", "free">>)
                 /\ ret' = [ret EXCEPT ![c] = [NoRet EXCEPT !.state = "null"]]
    /\ UNCHANGED <<ftrapv, screen>>

\* ---------------------------------------------------------- specifications
\* The statements of call c after its entry.
Body(c) ==
    \/ ResolveDisplay(c)
    \/ OpenDisplay(c)
    \/ CheckBounds(c)
    \/ QueryShm(c)
    \/ ShmCreateImage(c)
    \/ ShmSetup(c)
    \/ ShmAttach(c)
    \/ ShmGetImage(c)
    \/ GetImage(c)
    \/ Malloc(c)
    \/ ConvertStep(c)
    \/ Release(c)
    \/ JniCheck(c)
    \/ JniNewArray(c)

\* One call of the entry point, with any arguments.
Next == JniCall(1, Args) \/ Body(1)

Spec == Init /\ [][Next]_vars

\* Two calls of the entry point on the regions of PairArgs, interleaved.
PairNext == \E c \in Calls : JniCall(c, PairArgs) \/ Body(c)

\* No region of PairArgs overflows int, so the two builds behave alike there.
PairInit == Init /\ ftrapv = FALSE

PairSpec == PairInit /\ [][PairNext]_vars

\* ------------------------------------------------------ reading the log
Has(s, e) == \E k \in 1 .. Len(s) : s[k] = e

Count(s, e) == Cardinality({k \in 1 .. Len(s) : s[k] = e})

\* The first position of e in s (s has it).
First(s, e) == CHOOSE k \in 1 .. Len(s) : s[k] = e /\ \A m \in 1 .. k - 1 : s[m] # e

\* x11_grab_screen has returned, with NULL, with the buffer.
GrabReturned(c) == loc[c].grab # "pending"
GrabNull(c) == loc[c].grab = "NULL"
GrabData(c) == loc[c].grab = "data"

\* Slot k of the output buffer of locals l.
DataAt(l, k) == IF k \in DOMAIN l.cells THEN l.cells[k] ELSE l.garbage

\* a + b > lim over the integers, for a and b in the range of int.
ExactSumExceeds(a, b, lim) == IF AddOverflows(a, b) THEN b > 0 ELSE a + b > lim

\* ----------------------------------------------------------------- claims
\* C1: after a call of x11_grab_screen that returns NULL, whichever step
\* failed, the call holds no native image, no shared-memory attachment
\* (process-side or server-side) and no display connection.
C1_NoLeakOnFailure ==
    \A c \in Calls :
      GrabNull(c) =>
        /\ held[c].conn = 0
        /\ held[c].image = 0
        /\ held[c].shmLocal = 0
        /\ held[c].shmServer = 0

\* C2: when x + w exceeds the screen width or y + h the screen height, as
\* sums over the integers, the call returns NULL having made no call to the
\* display service but the open and the close of the connection.
C2_BoundsCheck ==
    \A c \in Calls :
      LET l == loc[c] IN
        (/\ l.display
         /\ pc[c] # "bounds"
         /\ \/ ExactSumExceeds(l.w, l.x, l.width)
            \/ ExactSumExceeds(l.h, l.y, l.height))
        => /\ GrabNull(c)
           /\ log[c] = <<"XOpenDisplay", "XCloseDisplay">>

\* C3: after a successful capture the output element at index j*w+i, for
\* 0 <= i < w and 0 <= j < h, has been stored, has top byte 0xFF and has the
\* low 24 bits of the native pixel at (i, j); the array handed to the JVM
\* holds the same element there.
C3_OutputIsOpaquePixel ==
    \A c \in Calls :
      LET l == loc[c] IN
        GrabData(c) =>
          \A i \in 0 .. l.w - 1, j \in 0 .. l.h - 1 :
            LET k == j * l.w + i IN
              /\ k \in DOMAIN l.cells
              /\ Limb(l.cells[k], 3) = 255
              /\ l.cells[k] % TwoTo24 = XGetPixel(l, i, j)[3]
              /\ ret[c].state = "array" =>
                   /\ k < ret[c].len
                   /\ DataAt(ret[c], k) = l.cells[k]

C3_Witness ==
    \E c \in Calls :
      /\ ret[c].state = "array"
      /\ loc[c].w >= 2 /\ loc[c].h >= 2
      /\ XGetPixel(loc[c], 1, 1)[2] # 255
      /\ XGetPixel(loc[c], 1, 1)[1] # 0

\* C4: after a successful capture the output buffer was allocated with
\* exactly w*h elements, and the array handed to the JVM has w*h elements.
C4_BufferLength ==
    \A c \in Calls :
      LET l == loc[c] IN
        GrabData(c) =>
          /\ ~ MulOverflows(l.w, l.h)
          /\ l.alloc = l.w * l.h
          /\ ret[c].state = "array" => ret[c].len = l.w * l.h

\* C5: two successful captures of the same region of the same screen, one
\* with the shared-memory probe true and one with it false, return buffers
\* of the same length with the same elements.
C5_PathsAgree ==
    \A c \in Calls, d \in Calls :
      LET l == loc[c]
          m == loc[d]
      IN  (/\ GrabData(c) /\ GrabData(d)
           /\ <<l.x, l.y, l.w, l.h>> = <<m.x, m.y, m.w, m.h>>
           /\ l.shm_support /\ ~ m.shm_support)
          => /\ l.alloc = m.alloc
             /\ \A k \in 0 .. l.alloc - 1 : DataAt(l, k) = DataAt(m, k)

C5_Witness ==
    \E c \in Calls, d \in Calls :
      /\ GrabData(c) /\ GrabData(d)
      /\ <<loc[c].x, loc[c].y, loc[c].w, loc[c].h>>
           = <<loc[d].x, loc[d].y, loc[d].w, loc[d].h>>
      /\ Has(log[c], "XShmGetImage") /\ Has(log[d], "XGetImage")
      /\ loc[c].x = 1 /\ loc[c].alloc >= 1
      /\ screen.width >= 2

\* C6: with no display name the call returns NULL without a call to the
\* display service; after a failed open of the connection it returns NULL
\* and the failed open is the only call it made.
C6_NoConnection ==
    \A c \in Calls :
      /\ loc[c].display_str = "NULL" => GrabNull(c) /\ log[c] = <<>>
      /\ Has(log[c], "XOpenDisplay:fail") =>
           GrabNull(c) /\ log[c] = <<"XOpenDisplay:fail">>

C6_Witness ==
    \E c \in Calls : pc[c] = "done" /\ log[c] = <<"XOpenDisplay:fail">>

\* C7: with the shared-memory probe true, when the segment cannot be
\* attached to the process (or was not allocated) or the server-side attach
\* fails, the call returns NULL, its last call closes the connection, and it
\* issues no server-side detach and no image request.
C7_AttachFailure ==
    \A c \in Calls :
      (/\ Has(log[c], "shmat:fail") \/ Has(log[c], "XShmAttach:fail")
       /\ pc[c] # "shm_attach")
      => /\ GrabNull(c)
         /\ log[c][Len(log[c])] = "XCloseDisplay"
         /\ held[c].conn = 0
         /\ \A e \in {"XShmDetach", "XShmGetImage", "XShmGetImage:fail",
                      "XGetImage", "XGetImage:fail"} : ~ Has(log[c], e)

C7_Witness ==
    \E c \in Calls :
      /\ pc[c] = "done"
      /\ Has(log[c], "shmat") /\ Has(log[c], "XShmAttach:fail")

\* C8: a call that fails returns NULL and leaves no output buffer: the
\* buffer is allocated only after an image request succeeded, a call whose
\* allocation succeeded returns the buffer, and the entry point asks for no
\* array when x11_grab_screen returned NULL.
C8_NoBufferOnFailure ==
    \A c \in Calls :
      /\ GrabNull(c) =>
           /\ ~ loc[c].data
           /\ held[c].heap = 0
           /\ ~ Has(log[c], "NewIntArray") /\ ~ Has(log[c], "NewIntArray:fail")
           /\ pc[c] = "done" => ret[c].state = "null"
      /\ (pc[c] = "done" /\ ret[c].state = "null") => held[c].heap = 0
      /\ Has(log[c], "malloc") \/ Has(log[c], "malloc:fail") =>
           Has(log[c], "XShmGetImage") \/ Has(log[c], "XGetImage")
      /\ Has(log[c], "malloc") /\ GrabReturned(c) => GrabData(c)

C8_Witness ==
    \E c \in Calls :
      pc[c] = "done" /\ GrabNull(c) /\ Has(log[c], "malloc:fail")

\* C9: a call opens at most one connection, and when x11_grab_screen has
\* returned, on any path, it has closed the connection it opened exactly
\* once.
C9_ConnectionClosedOnce ==
    \A c \in Calls :
      /\ Count(log[c], "XOpenDisplay") <= 1
      /\ Count(log[c], "XCloseDisplay") <= Count(log[c], "XOpenDisplay")
      /\ GrabReturned(c) =>
           /\ Count(log[c], "XCloseDisplay") = Count(log[c], "XOpenDisplay")
           /\ held[c].conn = 0

C9_Witness ==
    \E c \in Calls :
      GrabData(c) /\ Count(log[c], "XCloseDisplay") = 1 /\ held[c].conn = 0

\* The calls x11_grab_screen makes, but for the pixel reads.
IsReleaseCall(e) == e \notin {"XGetPixel", "NewIntArray", "NewIntArray:fail", "free"}

\* C10: once an image was captured, whether the allocation of the buffer
\* succeeds or fails, the calls after it are: destroy the image, then (if
\* and only if the image came through shared memory) detach from the server
\* and from the process, then close the connection; the buffer or NULL is
\* returned after them.
C10_ReleaseOrder ==
    \A c \in Calls :
      LET s == log[c]
          ok == Has(s, "malloc")
      IN  (GrabReturned(c) /\ (ok \/ Has(s, "malloc:fail"))) =>
            LET at == First(s, IF ok THEN "malloc" ELSE "malloc:fail")
                after == SelectSeq(SubSeq(s, at + 1, Len(s)), IsReleaseCall)
            IN  /\ after = <<"XDestroyImage">>
                             \o (IF Has(s, "XShmGetImage")
                                 THEN <<"XShmDetach", "shmdt">> ELSE <<>>)
                             \o <<"XCloseDisplay">>
                /\ loc[c].grab = IF ok THEN "data" ELSE "NULL"

C10_Witness ==
    \E c \in Calls :
      /\ GrabData(c)
      /\ Has(log[c], "XShmGetImage")
      /\ Has(log[c], "XGetPixel")

\* The calls of s after the first e (s has it).
After(s, e) == SubSeq(s, First(s, e) + 1, Len(s))

\* C11: when XShmGetImage fails after a successful XShmAttach, the call
\* returns NULL, and the calls it makes after the failed request are, in
\* this order, XShmDetach, shmdt and XCloseDisplay, and no other.
C11_FillFailure ==
    \A c \in Calls :
      Has(log[c], "XShmGetImage:fail") =>
        /\ GrabNull(c)
        /\ Has(log[c], "XShmAttach")
        /\ First(log[c], "XShmAttach") < First(log[c], "XShmGetImage:fail")
        /\ After(log[c], "XShmGetImage:fail")
             = <<"XShmDetach", "shmdt", "XCloseDisplay">>

C11_Witness ==
    \E c \in Calls :
      /\ Has(log[c], "XShmGetImage:fail")
      /\ pc[c] = "done"
      /\ ret[c].state = "null"

\* The calls that belong to the shared-memory path.
ShmPathCalls ==
    { "XShmCreateImage", "XShmCreateImage:fail", "shmget", "shmget:fail",
      "shmat", "shmat:fail", "shmctl", "shmctl:fail",
      "XShmAttach", "XShmAttach:fail", "XShmGetImage", "XShmGetImage:fail",
      "XShmDetach", "shmdt" }

\* The two requests for the image, answered or failed.
ImageRequests == {"XShmGetImage", "XShmGetImage:fail", "XGetImage", "XGetImage:fail"}

\* C12: the answer of XShmQueryExtension alone selects the path. After the
\* answer true no XGetImage is made in the call, whichever step of the
\* shared-memory path fails; after the answer false no call of the
\* shared-memory path is made; no call of either path comes before the
\* probe, and a call makes at most one of the two requests for the image.
C12_ProbeSelectsPath ==
    \A c \in Calls :
      LET s == log[c] IN
        /\ Has(s, "XShmQueryExtension") =>
             ~Has(s, "XGetImage") /\ ~Has(s, "XGetImage:fail")
        /\ Has(s, "XShmQueryExtension:no") =>
             \A k \in 1 .. Len(s) : s[k] \notin ShmPathCalls
        /\ \A k \in 1 .. Len(s) :
             s[k] \in ShmPathCalls \cup ImageRequests =>
               \E m \in 1 .. k - 1 :
                 s[m] \in {"XShmQueryExtension", "XShmQueryExtension:no"}
        /\ Cardinality({k \in 1 .. Len(s) : s[k] \in ImageRequests}) <= 1

C12_Witness ==
    \E c \in Calls :
      /\ Has(log[c], "XShmQueryExtension")
      /\ Has(log[c], "XShmAttach:fail")
      /\ GrabNull(c)

\* The calls on the segment, and the place of each in its life.
IsSegmentCall(e) ==
    e \in { "shmget", "shmget:fail", "shmat", "shmat:fail", "shmctl",
            "shmctl:fail", "XShmAttach", "XShmAttach:fail", "XShmGetImage",
            "XShmGetImage:fail", "XShmDetach", "shmdt" }

SegmentPlace(e) ==
    CASE e \in {"shmget", "shmget:fail"} -> 1
      [] e \in {"shmat", "shmat:fail"} -> 2
      [] e \in {"shmctl", "shmctl:fail"} -> 3
      [] e \in {"XShmAttach", "XShmAttach:fail"} -> 4
      [] e \in {"XShmGetImage", "XShmGetImage:fail"} -> 5
      [] e = "XShmDetach" -> 6
      [] e = "shmdt" -> 7

\* C13: the calls a capture makes on its segment come in the order shmget,
\* shmat, shmctl(IPC_RMID), XShmAttach, XShmGetImage, XShmDetach, shmdt,
\* each at most once and none skipped before a later one: the k-th call on
\* the segment is the k-th of that list. So the mark for removal comes
\* before the attach to the server and before the request for the image.
C13_SegmentOrder ==
    \A c \in Calls :
      LET seg == SelectSeq(log[c], IsSegmentCall) IN
        \A k \in 1 .. Len(seg) : SegmentPlace(seg[k]) = k

C13_Witness ==
    \E c \in Calls :
      /\ GrabData(c)
      /\ Has(log[c], "shmctl")
      /\ Has(log[c], "shmdt")
      /\ Len(SelectSeq(log[c], IsSegmentCall)) = 7

\* The stage of a call of x11_grab_screen: 1 connect, 2 negotiate,
\* 3 capture, 4 convert, 5 release; 6 is the caller's work after the return.
Stage(e) ==
    CASE e \in {"XOpenDisplay", "XOpenDisplay:fail"} -> 1
      [] e \in { "XShmQueryExtension", "XShmQueryExtension:no",
                 "XShmCreateImage", "XShmCreateImage:fail", "shmget",
                 "shmget:fail", "shmat", "shmat:fail", "shmctl", "shmctl:fail",
                 "XShmAttach", "XShmAttach:fail" } -> 2
      [] e \in ImageRequests -> 3
      [] e \in {"malloc", "malloc:fail", "XGetPixel"} -> 4
      [] e \in {"XDestroyImage", "XShmDetach", "shmdt", "XCloseDisplay"} -> 5
      [] OTHER -> 6

\* The acquiring operations, each with its failed form.
Acquisitions ==
    { {"XOpenDisplay", "XOpenDisplay:fail"},
      {"XShmQueryExtension", "XShmQueryExtension:no"},
      {"XShmCreateImage", "XShmCreateImage:fail"},
      {"shmget", "shmget:fail"},
      {"shmat", "shmat:fail"},
      {"XShmAttach", "XShmAttach:fail"},
      ImageRequests,
      {"malloc", "malloc:fail"} }

\* The failures the code tests for as soon as the call has returned, and
\* the failures of lines 112-115, which it tests for at line 118 only.
TestedFailures ==
    { "XOpenDisplay:fail", "XShmCreateImage:fail", "XShmAttach:fail",
      "XShmGetImage:fail", "XGetImage:fail", "malloc:fail" }

SegmentFailures == {"shmget:fail", "shmat:fail", "shmctl:fail"}

\* C14: within one call the calls come stage after stage (connect,
\* negotiate, capture, convert, release); each acquiring operation, failed
\* or not, is issued at most once; after a failure the call only releases
\* and returns NULL (a failure on the segment is found at line 118, after
\* the other two calls on the segment): nothing is tried again.
C14_LinearNoRetry ==
    \A c \in Calls :
      LET s == log[c] IN
        /\ \A k \in 1 .. Len(s), m \in 1 .. Len(s) :
             k < m => Stage(s[k]) <= Stage(s[m])
        /\ \A G \in Acquisitions :
             Cardinality({k \in 1 .. Len(s) : s[k] \in G}) <= 1
        /\ \A k \in 1 .. Len(s) :
             /\ s[k] \in TestedFailures =>
                  /\ GrabNull(c)
                  /\ \A m \in k + 1 .. Len(s) : Stage(s[m]) = 5
             /\ s[k] \in SegmentFailures =>
                  /\ pc[c] # "shm_attach" => GrabNull(c)
                  /\ \A m \in k + 1 .. Len(s) :
                       \/ s[m] = "XCloseDisplay"
                       \/ s[m] \in SegmentFailures \cup {"shmat", "shmctl"}

C14_Witness ==
    \E c \in Calls :
      /\ Has(log[c], "XShmGetImage")
      /\ Has(log[c], "malloc:fail")
      /\ GrabNull(c)

\* All that call c reads and writes of its own.
Footprint(c) == <<pc[c], loc[c], held[c], log[c], ret[c]>>

\* What call c computes from its arguments, the screen and the answers it
\* got, whatever any other call does: the resources it holds are those its
\* own calls acquired and did not release, it has the buffer if and only if
\* it got as far as the release after a successful malloc, and the buffer
\* and the array hold the pixels of its own rectangle.
SoloOutcome(c) ==
    LET l == loc[c] IN
      /\ held[c] = Apply(NoHeld, log[c])
      /\ GrabData(c) <=> (Has(log[c], "malloc") /\ Has(log[c], "XCloseDisplay"))
      /\ GrabData(c) =>
           /\ l.alloc = l.w * l.h
           /\ \A i \in 0 .. l.w - 1, j \in 0 .. l.h - 1 :
                DataAt(l, j * l.w + i) = ToARGB(ScreenPixel(l.x + i, l.y + j))
      /\ ret[c].state = "array" =>
           /\ ret[c].len = l.w * l.h
           /\ \A k \in 0 .. ret[c].len - 1 : DataAt(ret[c], k) = DataAt(l, k)

\* C15: two calls interleaved share no state that changes: every step is
\* the step of one call and leaves the other call's locals, resources,
\* calls made and result as they were, and leaves the screen as it was; and
\* at every point of every interleaving each call has the outcome that its
\* own arguments and its own sequence of acquires and releases determine.
C15_CallsIndependent ==
    /\ [](\A c \in Calls : SoloOutcome(c))
    /\ [][ /\ \E c \in Calls : \A d \in Calls \ {c} : Footprint(d)' = Footprint(d)
           /\ UNCHANGED <<screen, ftrapv>> ]_vars

C15_Witness ==
    /\ \A c \in Calls : pc[c] = "convert" /\ loc[c].off >= 1
    /\ loc[1].x # loc[2].x
    /\ loc[1].shm_support # loc[2].shm_support

\* x11_grab_screen has been entered by call c.
GrabEntered(c) == pc[c] = "resolve" \/ loc[c].display_str # "unset"

\* C16: every library call of the model returns, so a call of
\* x11_grab_screen that has not returned yet can always take its next step
\* (it is never stopped short of its return); and a call that reaches the
\* release with non-negative w and h has read exactly w*h pixels.
C16_CallReturns ==
    \A c \in Calls :
      LET l == loc[c] IN
        /\ (GrabEntered(c) /\ ~ GrabReturned(c)) => ENABLED Body(c)
        /\ (GrabData(c) /\ l.w >= 0 /\ l.h >= 0 /\ ~ MulOverflows(l.w, l.h)) =>
             Count(log[c], "XGetPixel") = l.w * l.h

\* The releasing calls, and for each the successful calls that acquire what
\* it releases.
Releases == {"XShmDetach", "shmdt", "XDestroyImage", "XCloseDisplay"}

AcquiredBy(e) ==
    CASE e = "XShmDetach" -> {"XShmAttach"}
      [] e = "shmdt" -> {"shmat"}
      [] e = "XDestroyImage" -> {"XShmCreateImage", "XGetImage"}
      [] e = "XCloseDisplay" -> {"XOpenDisplay"}

\* C17: no release is applied to a resource the call does not hold.
\* XShmDetach comes only after a successful XShmAttach, shmdt only after a
\* successful shmat, XDestroyImage only after an image was obtained,
\* XCloseDisplay only after a successful XOpenDisplay, and each of the four
\* at most once in a call; so at no point of the call is a count of held
\* resources negative.
C17_ReleaseOnlyHeld ==
    \A c \in Calls :
      LET s == log[c] IN
        /\ \A k \in 1 .. Len(s) :
             s[k] \in Releases =>
               /\ \E m \in 1 .. k - 1 : s[m] \in AcquiredBy(s[k])
               /\ \A m \in 1 .. k - 1 : s[m] # s[k]
        /\ \A n \in 0 .. Len(s) :
             LET hd == Apply(NoHeld, SubSeq(s, 1, n)) IN
               /\ hd.conn \in 0 .. 1
               /\ hd.image \in 0 .. 1
               /\ hd.shmLocal \in 0 .. 1
               /\ hd.shmServer \in 0 .. 1

C17_Witness ==
    \E c \in Calls :
      /\ GrabReturned(c)
      /\ \A e \in Releases : Count(log[c], e) = 1

\* The requests that go through the connection (the Display argument).
DisplayCalls ==
    { "XOpenDisplay", "XOpenDisplay:fail", "XShmQueryExtension",
      "XShmQueryExtension:no", "XShmCreateImage", "XShmCreateImage:fail",
      "XShmAttach", "XShmAttach:fail", "XShmGetImage", "XShmGetImage:fail",
      "XGetImage", "XGetImage:fail", "XShmDetach", "XCloseDisplay" }

\* The calls that take the image, or the memory under it, away.
ImageReleases == {"XDestroyImage", "XShmDetach", "shmdt"}

\* C18: nothing is used after its release. XCloseDisplay is the last
\* request of the call on the connection: no probe, attach, detach or image
\* request comes after it; and every XGetPixel comes before XDestroyImage
\* and before the detaches of the segment behind the image.
C18_NoUseAfterRelease ==
    \A c \in Calls :
      LET s == log[c] IN
        \A k \in 1 .. Len(s), m \in 1 .. Len(s) :
          k < m =>
            /\ s[k] = "XCloseDisplay" => s[m] \notin DisplayCalls
            /\ s[k] \in ImageReleases =>
                 s[m] \notin {"XGetPixel"} \cup ImageRequests

C18_Witness ==
    \E c \in Calls :
      /\ GrabReturned(c)
      /\ Has(log[c], "XGetPixel")
      /\ Has(log[c], "XShmDetach")
      /\ log[c][Len(log[c])] = "XCloseDisplay"

\* C19: for all int x, y, w, h that pass the bounds check, negative ones
\* and ones whose product wraps included: while the call converts, the
\* write offset is at most the number of slots allocated and is below it
\* when a pixel is about to be stored, and no slot was stored twice or
\* outside the buffer; when the call returns the buffer, the offset equals
\* the number of slots allocated and every slot was stored exactly once.
C19_EverySlotWrittenOnce ==
    \A c \in Calls :
      LET l == loc[c] IN
        l.data =>
          /\ l.off <= l.alloc
          /\ (pc[c] = "convert" /\ l.j < l.h /\ l.i < l.w) => Slot(l) < l.alloc
          /\ \A k \in DOMAIN l.writes : k \in 0 .. l.alloc - 1 /\ l.writes[k] = 1
          /\ GrabData(c) =>
               /\ l.off = l.alloc
               /\ \A k \in 0 .. l.alloc - 1 : k \in DOMAIN l.writes

====
